---- MODULE Spec2Model ----
(***************************************************************************)
(* Model of hwcodec's vram encoder front end (src/vram/encode.rs):         *)
(*   - the Encoder object: new / encode / callback / set_bitrate /         *)
(*     set_framerate / Drop, over the backend call table EncodeCalls;      *)
(*   - the capability prober: available() and do_test(), with one probe    *)
(*     thread per (driver, format) pair, the per-do_test serialization     *)
(*     mutex taken by NV and FFMPEG probes and the outputs mutex.          *)
(* The backends (nv, amf, mfx, ffmpeg) are foreign code: every value they  *)
(* return is a nondeterministic input drawn from a small set.              *)
(***************************************************************************)
EXTENDS Integers, Sequences, FiniteSets, TLC

(***************************************************************************)
(* Bounds of the model.                                                    *)
(***************************************************************************)
\* encode calls made on one Encoder
MaxEncodeCalls == 2
\* callback invocations the backend makes during one encode call
MaxCallbacks == 2

(***************************************************************************)
(* Small input sets.                                                       *)
(***************************************************************************)
\* widths and heights given to Encoder::new: a negative odd, a positive odd
\* and an even value
Dims == {0 - 1, 1, 2}
\* Driver enum (common::Driver), used at encode.rs:38-43 and 207-212
Drivers == {"NV", "AMF", "MFX", "FFMPEG"}
\* DataFormat values iterated at encode.rs:161 and nv.rs:36
Formats == {"H264", "H265"}
\* the null pointer and the non-null handles a backend's new can return
NullPtr == 0
Handles == {1}
\* status codes returned by the backend's encode / set_bitrate / set_framerate
Statuses == {0, 0 - 1, 3}
\* backend-owned output memory handed to the callback, and the other
\* arguments of one callback invocation
BackendMems == {<<7, 8>>}
Keys == {0, 1}
PtsValues == {10}
Kbs == {0 - 1, 2000}
Framerates == {30}
Encoders == {"e1", "e2"}
\* the instances exercised by SpecEncoder
Solo == {"e1"}

VARIABLES
    est,        \* Encoder e: "none" (not constructed), "failed" (new returned
                \* Err), "live", "dropped"
    codec,      \* Encoder.codec: the backend handle
    frames,     \* the Vec<EncodeFrame> behind Encoder.frames
    framesAlloc,\* whether the Box behind Encoder.frames is allocated
    ectx,       \* the ctx given to Encoder::new(e) (width, height, driver),
                \* kept as Encoder.ctx when new succeeds
    epc,        \* "idle", or "in_encode" while the backend's encode runs
    newCalls,   \* ghost: calls of the backend's new made by Encoder::new(e)
    newRet,     \* ghost: what Encoder::new returned: "none", "Ok", "Err(())"
    destroyLog, \* ghost: one record per call of the backend's destroy
    callNo,     \* ghost: number of encode calls begun on e
    prevLeft,   \* ghost: whether frames of an earlier call were still in the
                \* buffer when the current encode call was entered
    cbLog,      \* ghost: arguments of the callbacks of the current encode call
    encRet,     \* ghost: what the last encode returned
    lastCall    \* ghost: the last backend call made for e (operation, handle
                \* and argument handed to the backend, the argument the
                \* caller gave, the status the backend returned) and, for
                \* set_bitrate / set_framerate, what the Encoder method
                \* returned to its caller

encVars == <<est, codec, frames, framesAlloc, ectx, epc, newCalls, newRet,
             destroyLog, callNo, prevLeft, cbLog, encRet, lastCall>>

VARIABLES
    pcMain,     \* available(): "idle" (not called), "do_test", "done" (returned)
    nvSupport,  \* what nv_encode_driver_support() returned (nv.rs:33)
    caps,       \* what each backend's possible_support_encoders() returns
    phase,      \* which do_test call of available() is running
    inputs,     \* do_test: the EncodeContexts built at encode.rs:186-194
    spawned,    \* do_test: threads spawned so far (encode.rs:198-242)
    joined,     \* do_test: handles joined so far (encode.rs:243-245)
    threads,    \* every probe thread spawned so far, in spawn order
    mutex,      \* per do_test call: the serialization Mutex of encode.rs:197
    outputs,    \* per do_test call: the Vec behind the outputs Mutex
    outHolder,  \* per do_test call: the thread holding the outputs Mutex, or 0
    luidRange,  \* per do_test call: its luid_range argument
    result      \* available(): its result vector

probeVars == <<pcMain, nvSupport, caps, phase, inputs, spawned, joined, threads, mutex,
               outputs, outHolder, luidRange, result>>

vars == <<est, codec, frames, framesAlloc, ectx, epc, newCalls, newRet,
          destroyLog, callNo, prevLeft, cbLog, encRet, lastCall,
          pcMain, nvSupport, caps, phase, inputs, spawned, joined, threads, mutex,
          outputs, outHolder, luidRange, result>>

NoCtx == [width |-> 0, height |-> 0, driver |-> "none"]
NoRet == [tag |-> "none", code |-> 0]
NoEncRet == [tag |-> "none", code |-> 0, ref |-> "none"]
NoCall == [op |-> "none", handle |-> NullPtr, given |-> 0, arg |-> 0, status |-> 0,
           ret |-> NoRet]

(***************************************************************************)
(* Rust's % on i32 truncates toward zero: the remainder has the sign of    *)
(* the dividend, so (-3) % 2 == -1.                                        *)
(***************************************************************************)
RustRem(a, b) == IF a >= 0 THEN a % b ELSE 0 - ((0 - a) % b)

\* the parity test of Encoder::new, encode.rs:35
IsOddRejected(w, h) == RustRem(w, 2) = 1 \/ RustRem(h, 2) = 1

\* mathematical oddness, for stating the claims
IsOdd(n) == n % 2 = 1

EncInit ==
    /\ est = [e \in Encoders |-> "none"]
    /\ codec = [e \in Encoders |-> NullPtr]
    /\ frames = [e \in Encoders |-> <<>>]
    /\ framesAlloc = [e \in Encoders |-> FALSE]
    /\ ectx = [e \in Encoders |-> NoCtx]
    /\ epc = [e \in Encoders |-> "idle"]
    /\ newCalls = [e \in Encoders |-> 0]
    /\ newRet = [e \in Encoders |-> "none"]
    /\ destroyLog = [e \in Encoders |-> <<>>]
    /\ callNo = [e \in Encoders |-> 0]
    /\ prevLeft = [e \in Encoders |-> FALSE]
    /\ cbLog = [e \in Encoders |-> <<>>]
    /\ encRet = [e \in Encoders |-> NoEncRet]
    /\ lastCall = [e \in Encoders |-> NoCall]

(***************************************************************************)
(* Encoder::new, encode.rs:33-66.  handle is what the backend's new        *)
(* returns when it is called.                                              *)
(***************************************************************************)
\* the values Encoder::new returns on its two failure paths: Err(()) at
\* encode.rs:36 (parity test) and Err(()) at encode.rs:57 (null handle);
\* the error type of Result<Self, ()> has the single value ()
NewErrOdd == "Err(())"
NewErrNull == "Err(())"

NewRejectsGeometry(e, w, h, drv) ==
    /\ est[e] = "none"
    /\ IsOddRejected(w, h)
    /\ est' = [est EXCEPT ![e] = "failed"]
    /\ newRet' = [newRet EXCEPT ![e] = NewErrOdd]
    /\ ectx' = [ectx EXCEPT ![e] = [width |-> w, height |-> h, driver |-> drv]]
    /\ UNCHANGED <<codec, frames, framesAlloc, epc, newCalls, destroyLog,
                   callNo, prevLeft, cbLog, encRet, lastCall,
                   probeVars>>

NewCallsBackend(e, w, h, drv, handle) ==
    /\ est[e] = "none"
    /\ ~IsOddRejected(w, h)
    /\ newCalls' = [newCalls EXCEPT ![e] = @ + 1]
    /\ lastCall' = [lastCall EXCEPT ![e] =
                        [NoCall EXCEPT !.op = "new", !.handle = handle]]
    /\ ectx' = [ectx EXCEPT ![e] = [width |-> w, height |-> h, driver |-> drv]]
    /\ IF handle = NullPtr
       THEN /\ est' = [est EXCEPT ![e] = "failed"]
            /\ newRet' = [newRet EXCEPT ![e] = NewErrNull]
            /\ UNCHANGED <<codec, frames, framesAlloc>>
       ELSE /\ est' = [est EXCEPT ![e] = "live"]
            /\ newRet' = [newRet EXCEPT ![e] = "Ok"]
            /\ codec' = [codec EXCEPT ![e] = handle]
            /\ frames' = [frames EXCEPT ![e] = <<>>]
            /\ framesAlloc' = [framesAlloc EXCEPT ![e] = TRUE]
    /\ UNCHANGED <<epc, destroyLog, callNo, prevLeft, cbLog, encRet,
                   probeVars>>

New(e) ==
    \E w \in Dims, h \in Dims, drv \in Drivers :
        \/ NewRejectsGeometry(e, w, h, drv)
        \/ \E handle \in {NullPtr} \cup Handles :
               NewCallsBackend(e, w, h, drv, handle)

(***************************************************************************)
(* Encoder::encode, encode.rs:68-84, in three parts: the entry (clear the  *)
(* buffer, call the backend's encode with the buffer as callback context), *)
(* the callbacks the backend makes while its encode runs (encode.rs:86-95),*)
(* and the return of the backend's encode with its status.                 *)
(***************************************************************************)
\* methods that could still be called on an Encoder that was dropped
AliveOrDropped(e) == est[e] \in {"live", "dropped"}

\* the methods take &mut self (encode.rs:68, 97, 106): they can be called
\* on an Encoder that new returned and that has not been dropped
Alive(e) == est[e] = "live"

\* a clear that leaves the buffer as it is
KeepFrames(buf) == buf

\* (&mut *self.frames).clear(), encode.rs:70
ClearFrames(buf) == <<>>

\* from_raw_parts(data, size as usize).to_vec(), encode.rs:90
CopyPayload(mem, size) == SubSeq(mem, 1, size)

\* the EncodeFrame built at encode.rs:89-93; call is a ghost field: the
\* number of the encode call during which the frame was delivered
MakeFrame(mem, size, key, pts, call) ==
    [data |-> CopyPayload(mem, size), pts |-> pts, key |-> key, call |-> call]

\* a push at the front of the buffer
PushFront(buf, f) == <<f>> \o buf

\* frames.push(..), encode.rs:89
PushFrame(buf, f) == Append(buf, f)

MsValues == {100}

EncodeBegin(e) ==
    \E ms \in MsValues :
        /\ Alive(e)
        /\ epc[e] = "idle"
        /\ callNo[e] < MaxEncodeCalls
        /\ frames' = [frames EXCEPT ![e] = ClearFrames(@)]
        /\ callNo' = [callNo EXCEPT ![e] = @ + 1]
        /\ prevLeft' = [prevLeft EXCEPT ![e] = (frames[e] # <<>>)]
        /\ cbLog' = [cbLog EXCEPT ![e] = <<>>]
        /\ epc' = [epc EXCEPT ![e] = "in_encode"]
        /\ lastCall' = [lastCall EXCEPT ![e] =
                            [NoCall EXCEPT !.op = "encode", !.handle = codec[e],
                                           !.given = ms, !.arg = ms]]
        /\ UNCHANGED <<est, codec, framesAlloc, ectx, newCalls, newRet,
                       destroyLog, encRet,
                   probeVars>>

\* a callback context that is one buffer shared by every Encoder
CallbackObjShared(e) == "e1"

\* obj, the callback context: encode passes self.frames (encode.rs:75), so
\* the callback made during e's encode call writes e's own buffer
CallbackObj(e) == e

\* one invocation of Encoder::callback during e's encode call, with the
\* arguments the backend gives it
CallbackWith(e, mem, size, key, pts) ==
    /\ epc[e] = "in_encode"
    /\ Len(cbLog[e]) < MaxCallbacks
    /\ frames' = [frames EXCEPT ![CallbackObj(e)] =
                      PushFrame(@, MakeFrame(mem, size, key, pts, callNo[e]))]
    /\ cbLog' = [cbLog EXCEPT ![e] =
                      Append(@, [mem |-> mem, size |-> size, key |-> key,
                                 pts |-> pts])]
    /\ UNCHANGED <<est, codec, framesAlloc, ectx, epc, newCalls, newRet,
                   destroyLog, callNo, prevLeft, encRet, lastCall,
                   probeVars>>

Callback(e) ==
    \E mem \in BackendMems, key \in Keys, pts \in PtsValues :
        \E size \in 0..Len(mem) :
            CallbackWith(e, mem, size, key, pts)

\* an encode that takes only negative statuses for failures
EncodeResultNegativeOnly(status, buf) ==
    IF status < 0 THEN [tag |-> "Err", code |-> status, ref |-> "none"]
                  ELSE [tag |-> "Ok", code |-> 0, ref |-> buf]

\* encode.rs:78-82: Err(result), or Ok(&mut *self.frames); ref is the buffer
\* the returned value refers to
EncodeResult(status, buf) ==
    IF status # 0 THEN [tag |-> "Err", code |-> status, ref |-> "none"]
                  ELSE [tag |-> "Ok", code |-> 0, ref |-> buf]

EncodeReturn(e) ==
    \E status \in Statuses :
        /\ epc[e] = "in_encode"
        /\ encRet' = [encRet EXCEPT ![e] = EncodeResult(status, e)]
        /\ epc' = [epc EXCEPT ![e] = "idle"]
        /\ lastCall' = [lastCall EXCEPT ![e].status = status]
        /\ UNCHANGED <<est, codec, frames, framesAlloc, ectx, newCalls, newRet,
                       destroyLog, callNo, prevLeft, cbLog,
                   probeVars>>

(***************************************************************************)
(* Encoder::set_bitrate and Encoder::set_framerate, encode.rs:97-113.      *)
(***************************************************************************)
\* a setter that reports every failure as -1
SetResultFlattened(status) ==
    IF status = 0 THEN [tag |-> "Ok", code |-> 0]
                  ELSE [tag |-> "Err", code |-> 0 - 1]

\* match .. { 0 => Ok(()), err => Err(err) }, encode.rs:99-102 and 108-111
SetResult(status) ==
    IF status = 0 THEN [tag |-> "Ok", code |-> 0]
                  ELSE [tag |-> "Err", code |-> status]

\* the argument handed to the backend: kbs / framerate is passed as given
\* (encode.rs:99 and 108)
Forwarded(v) == v

SetBitrate(e) ==
    \E kbs \in Kbs, status \in Statuses :
        /\ Alive(e)
        /\ epc[e] = "idle"
        /\ lastCall' = [lastCall EXCEPT ![e] =
                            [op |-> "set_bitrate", handle |-> codec[e],
                             given |-> kbs, arg |-> Forwarded(kbs),
                             status |-> status, ret |-> SetResult(status)]]
        /\ UNCHANGED <<est, codec, frames, framesAlloc, ectx, epc, newCalls,
                       newRet, destroyLog, callNo, prevLeft, cbLog, encRet,
                   probeVars>>

SetFramerate(e) ==
    \E framerate \in Framerates, status \in Statuses :
        /\ Alive(e)
        /\ epc[e] = "idle"
        /\ lastCall' = [lastCall EXCEPT ![e] =
                            [op |-> "set_framerate", handle |-> codec[e],
                             given |-> framerate, arg |-> Forwarded(framerate),
                             status |-> status, ret |-> SetResult(status)]]
        /\ UNCHANGED <<est, codec, frames, framesAlloc, ectx, epc, newCalls,
                       newRet, destroyLog, callNo, prevLeft, cbLog, encRet,
                   probeVars>>

(***************************************************************************)
(* Drop for Encoder, encode.rs:116-125: the statements of drop, applied in *)
(* order to the fields of the Encoder.  Each call of the backend's destroy *)
(* is logged with the handle it was given and whether the accumulation     *)
(* buffer was still allocated at that moment.                              *)
(***************************************************************************)
\* a drop that releases the buffer before it destroys the codec
DropStepsFreeFirst == <<"free_frames", "destroy", "null_codec">>

DropSteps == <<"destroy", "null_codec", "free_frames">>

DropStep(s, step) ==
    CASE step = "destroy" ->
            [s EXCEPT !.log = Append(@, [handle |-> s.codec, bufAlloc |-> s.alloc])]
      [] step = "null_codec" -> [s EXCEPT !.codec = NullPtr]
      [] step = "free_frames" -> [s EXCEPT !.alloc = FALSE, !.buf = <<>>]

RECURSIVE RunDrop(_, _)
RunDrop(s, steps) ==
    IF steps = <<>> THEN s ELSE RunDrop(DropStep(s, Head(steps)), Tail(steps))

Drop(e) ==
    /\ est[e] = "live"
    /\ epc[e] = "idle"
    /\ LET s == RunDrop([codec |-> codec[e], alloc |-> framesAlloc[e],
                         buf |-> frames[e], log |-> destroyLog[e]], DropSteps)
       IN  /\ codec' = [codec EXCEPT ![e] = s.codec]
           /\ framesAlloc' = [framesAlloc EXCEPT ![e] = s.alloc]
           /\ frames' = [frames EXCEPT ![e] = s.buf]
           /\ destroyLog' = [destroyLog EXCEPT ![e] = s.log]
    /\ est' = [est EXCEPT ![e] = "dropped"]
    /\ lastCall' = [lastCall EXCEPT ![e] =
                        [NoCall EXCEPT !.op = "destroy", !.handle = codec[e]]]
    /\ UNCHANGED <<ectx, epc, newCalls, newRet, callNo, prevLeft, cbLog, encRet,
                   probeVars>>

EncNext ==
    \E e \in Solo :
        \/ New(e)
        \/ EncodeBegin(e)
        \/ Callback(e)
        \/ EncodeReturn(e)
        \/ SetBitrate(e)
        \/ SetFramerate(e)
        \/ Drop(e)

(***************************************************************************)
(* Several Encoders used at the same time, each by its own thread: the     *)
(* steps of the instances interleave.  Every instance is constructed with  *)
(* an even geometry, and the backend marks the frames it delivers during   *)
(* an instance's encode call with a key value of that instance, so that    *)
(* the frames of different instances can be told apart.                    *)
(***************************************************************************)
EncoderKey(e) == IF e = "e1" THEN 0 ELSE 1

ConcNew(e) ==
    \E handle \in {NullPtr} \cup Handles : NewCallsBackend(e, 2, 2, "NV", handle)

ConcCallback(e) ==
    \E mem \in BackendMems, pts \in PtsValues :
        CallbackWith(e, mem, Len(mem), EncoderKey(e), pts)

ConcNext ==
    \E e \in Encoders :
        \/ ConcNew(e)
        \/ EncodeBegin(e)
        \/ ConcCallback(e)
        \/ EncodeReturn(e)
        \/ Drop(e)

(***************************************************************************)
(* The capability prober: available() and do_test(), encode.rs:139-248.    *)
(***************************************************************************)
\* size of the descriptor buffer of one probe (crate::vram::MAX_ADATERS,
\* used at encode.rs:214), scaled down
MAX_ADATERS == 1
\* probe tasks of the hardware do_test call
MaxTasks == 3

\* the luid of a zeroed AdapterDesc (encode.rs:214) and of an unresolved
\* FeatureContext (encode.rs:191)
ZeroLuid == 0
\* luids a backend's test can write into a descriptor
Luids == {ZeroLuid, 1}
\* the api tag of an InnerEncodeContext (read at encode.rs:189)
Apis == {"dx11", "vulkan"}
\* status returned by a backend's test
TestStatuses == {0, 0 - 1}
\* desc_count values a backend's test can report
TestCounts == (0 - 1)..(MAX_ADATERS + 1)
\* phases of available(): the hardware do_test (encode.rs:159) and the two
\* FFMPEG do_test calls of the loop over [H264, H265] (encode.rs:161-175)
Phases == 0..2
PhaseFormat(p) == IF p = 1 THEN "H264" ELSE "H265"

FreeMutex == [holder |-> 0, poisoned |-> FALSE]
NoCaps == [drv \in Drivers |-> <<>>]

ProbeInit ==
    /\ pcMain = "idle"
    /\ nvSupport = 0
    /\ caps = NoCaps
    /\ phase = 0
    /\ inputs = <<>>
    /\ spawned = 0
    /\ joined = 0
    /\ threads = <<>>
    /\ mutex = [p \in Phases |-> FreeMutex]
    /\ outputs = [p \in Phases |-> <<>>]
    /\ outHolder = [p \in Phases |-> 0]
    /\ luidRange = [p \in Phases |-> <<>>]
    /\ result = <<>>

(***************************************************************************)
(* Helpers on sequences.                                                   *)
(***************************************************************************)
Range(s) == {s[i] : i \in DOMAIN s}

RECURSIVE SelectSeqBy(_, _)
\* SelectSeq with the test given as a set of accepted elements
SelectSeqBy(s, keep) ==
    IF s = <<>> THEN <<>>
    ELSE IF Head(s) \in keep THEN <<Head(s)>> \o SelectSeqBy(Tail(s), keep)
         ELSE SelectSeqBy(Tail(s), keep)

(***************************************************************************)
(* The static capability queries.                                          *)
(***************************************************************************)
InnerEncodeContexts == [api : Apis, format : Formats]

\* a capability query that ignores the driver-support check
NvAlwaysSupported(support) ==
    <<[api |-> "dx11", format |-> "H264"], [api |-> "dx11", format |-> "H265"]>>

\* nv::possible_support_encoders, nv.rs:32-44; support is what
\* nv_encode_driver_support() returns
NvPossibleSupportEncoders(support) ==
    IF support # 0 THEN <<>>
    ELSE <<[api |-> "dx11", format |-> "H264"], [api |-> "dx11", format |-> "H265"]>>

\* what amf:: and mfx::possible_support_encoders() can return (called at
\* encode.rs:148 and 154)
CapLists ==
    {<<>>,
     <<[api |-> "dx11", format |-> "H264"]>>,
     <<[api |-> "dx11", format |-> "H265"]>>,
     <<[api |-> "dx11", format |-> "H264"], [api |-> "dx11", format |-> "H265"]>>}

\* .drain(..).map(|n| (DRIVER, n)).collect(), encode.rs:141-158
Tagged(drv, list) == [i \in DOMAIN list |-> [driver |-> drv, n |-> list[i]]]

\* what ffmpeg::possible_support_encoders() can return (encode.rs:160): as
\* above, or two entries of one format that differ in their api
FfmpegCapLists ==
    CapLists \cup
        {<<[api |-> "dx11", format |-> "H264"], [api |-> "vulkan", format |-> "H264"]>>}

\* natives, encode.rs:140-158
Natives(c) == Tagged("NV", c["NV"]) \o Tagged("AMF", c["AMF"]) \o Tagged("MFX", c["MFX"])

\* the filter of encode.rs:167-172
FfmpegInners(c, format) ==
    Tagged("FFMPEG",
           SelectSeqBy(c["FFMPEG"], {n \in InnerEncodeContexts : n.format = format}))

\* the luids of every format found so far
LuidsForAnyFormat(res, format) == [i \in DOMAIN res |-> res[i].luid]

\* luids, encode.rs:162-166
LuidsFor(res, format) ==
    LET hits == SelectSeqBy(res, {f \in Range(res) : f.data_format = format})
    IN  [i \in DOMAIN hits |-> hits[i].luid]

\* inputs, encode.rs:186-194: every FeatureContext starts with luid 0
MakeInputs(inners) ==
    [i \in DOMAIN inners |->
        [driver |-> inners[i].driver, api |-> inners[i].n.api,
         data_format |-> inners[i].n.format, luid |-> ZeroLuid]]

(***************************************************************************)
(* The backends' test functions (called at encode.rs:216-231).  A test     *)
(* returns a status, reports a count and writes descriptors into the       *)
(* zeroed buffer of MAX_ADATERS entries.  do_test reads descs[i] only for  *)
(* i below the reported count, so the outcomes are enumerated with the     *)
(* entries from the count on left zeroed.                                  *)
(***************************************************************************)
\* luids a hardware backend's test can write: any, the zero luid included
HardwareTestLuids == Luids

\* luids the FFMPEG test can write: those of the luid filter it is given
FfmpegTestLuids(range) == Range(range)

DescArrays(count, allowed) ==
    {d \in [1..MAX_ADATERS -> Luids] :
        \A i \in 1..MAX_ADATERS :
            IF i <= count THEN d[i] \in allowed ELSE d[i] = ZeroLuid}

TestOutcomes(drv, range) ==
    LET allowed == IF drv = "FFMPEG" THEN FfmpegTestLuids(range)
                                     ELSE HardwareTestLuids
    IN  UNION {[status : {st}, count : {c}, descs : DescArrays(c, allowed)] :
                  st \in TestStatuses, c \in TestCounts}

\* ghost kept per thread: the status, the count and the descriptors its
\* test call reported; before the call the buffer is zeroed (encode.rs:214)
NoReport == [status |-> 0, count |-> 0,
             descs |-> [i \in 1..MAX_ADATERS |-> ZeroLuid]]

\* desc_count as usize <= descs.len(), encode.rs:232: a negative i32 cast
\* to usize is at least 2^63 and never fits
CountFits(count, len) == count >= 0 /\ count <= len

\* a probe that keeps the first MAX_ADATERS descriptors of an oversized report
AcceptedTruncated(o) ==
    IF o.status = 0 /\ o.count >= 0
    THEN [i \in 1..(IF o.count <= MAX_ADATERS THEN o.count ELSE MAX_ADATERS) |->
             o.descs[i]]
    ELSE <<>>

\* encode.rs:216 and 232-237: the luids the probe goes on to push, in order
Accepted(o) ==
    IF o.status = 0 /\ CountFits(o.count, MAX_ADATERS)
    THEN [i \in 1..o.count |-> o.descs[i]]
    ELSE <<>>

\* only the FFMPEG probes take the mutex
SerializedOnlyFfmpeg(drv) == drv = "FFMPEG"

\* every probe takes the mutex
SerializedAll(drv) == TRUE

\* the drivers whose probes take the serialization mutex, encode.rs:204
Serialized(drv) == drv = "NV" \/ drv = "FFMPEG"

(***************************************************************************)
(* available() and do_test() on the calling thread.                        *)
(***************************************************************************)
\* threads spawned by the do_test calls before phase p
PhaseBase(p) == Cardinality({t \in DOMAIN threads : threads[t].phase < p})

Finished(t) == threads[t].pc \in {"done", "panicked"}

\* entry of do_test, encode.rs:180-197: a fresh outputs vector and a fresh
\* serialization mutex for this call
EnterDoTest(p, inners, range) ==
    /\ phase' = p
    /\ inputs' = MakeInputs(inners)
    /\ luidRange' = [luidRange EXCEPT ![p] = range]
    /\ spawned' = 0
    /\ joined' = 0

\* encode.rs:139-159: the capability queries, natives, and the first
\* do_test; support, amf, mfx and ff are what the four queries return
StartAvailableWith(support, amf, mfx, ff) ==
    /\ pcMain = "idle"
    /\ LET c == [drv \in Drivers |->
                    CASE drv = "NV" -> NvPossibleSupportEncoders(support)
                      [] drv = "AMF" -> amf
                      [] drv = "MFX" -> mfx
                      [] drv = "FFMPEG" -> ff]
       IN  /\ Len(Natives(c)) <= MaxTasks
           /\ nvSupport' = support
           /\ caps' = c
           /\ EnterDoTest(0, Natives(c), <<>>)
    /\ pcMain' = "do_test"
    /\ UNCHANGED <<threads, mutex, outputs, outHolder, result,
                   encVars>>

StartAvailable ==
    \E support \in {0, 1}, amf \in CapLists, mfx \in CapLists,
       ff \in FfmpegCapLists :
        StartAvailableWith(support, amf, mfx, ff)

\* available() on a machine without the MFX backend's hardware: AMF stands
\* for the backends whose probes take no lock, which do_test treats alike
StartAvailableNoMfx ==
    \E support \in {0, 1}, amf \in CapLists, ff \in FfmpegCapLists :
        StartAvailableWith(support, amf, <<>>, ff)

\* one iteration of the loop at encode.rs:198-242: thread::spawn
Spawn ==
    /\ pcMain = "do_test"
    /\ spawned < Len(inputs)
    /\ threads' = Append(threads,
                         [phase |-> phase, input |-> inputs[spawned + 1],
                          pc |-> "start", called |-> FALSE, rep |-> NoReport,
                          n |-> 0, todo |-> <<>>])
    /\ spawned' = spawned + 1
    /\ UNCHANGED <<pcMain, nvSupport, caps, phase, inputs, joined, mutex, outputs,
                   outHolder, luidRange, result,
                   encVars>>

\* a join that returns at once
JoinableAlways(t) == TRUE

\* handle.join() returns once the thread has ended, by return or by panic
Joinable(t) == Finished(t)

\* one iteration of the loop at encode.rs:243-245: handle.join().ok() waits
\* for the thread and ignores whether it panicked
Join ==
    /\ pcMain = "do_test"
    /\ spawned = Len(inputs)
    /\ joined < spawned
    /\ Joinable(PhaseBase(phase) + joined + 1)
    /\ joined' = joined + 1
    /\ UNCHANGED <<pcMain, nvSupport, caps, phase, inputs, spawned, threads, mutex,
                   outputs, outHolder, luidRange, result,
                   encVars>>

RECURSIVE DropJoined(_, _, _)
DropJoined(ths, p, n) ==
    IF ths = <<>> THEN <<>>
    ELSE IF Head(ths).phase = p /\ n > 0
         THEN (IF Head(ths).pc \in {"done", "panicked"} THEN <<>> ELSE <<Head(ths)>>)
                  \o DropJoined(Tail(ths), p, n - 1)
         ELSE <<Head(ths)>> \o DropJoined(Tail(ths), p, n)

\* the threads left once do_test returns: a joined thread has terminated and
\* its JoinHandle is consumed (encode.rs:243-245), so the first n threads of
\* the call that have ended are gone; the serialization mutex is freed with
\* the last clone of its Arc
Unjoined(ths, p, n) == DropJoined(ths, p, n)

\* x.drain(..).map(|e| e.f).collect(), encode.rs:247
FeaturesOf(x) == [i \in DOMAIN x |-> x[i].f]

\* encode.rs:246-248, and what available() does with the value until it
\* enters the next do_test or returns (encode.rs:159-177)
DoTestReturn ==
    /\ pcMain = "do_test"
    /\ spawned = Len(inputs)
    /\ joined = spawned
    /\ outHolder[phase] = 0
    /\ LET v == FeaturesOf(outputs[phase])
           res == result \o v
       IN  /\ result' = res
           /\ IF phase < 2
              THEN /\ EnterDoTest(phase + 1,
                                  FfmpegInners(caps, PhaseFormat(phase + 1)),
                                  LuidsFor(res, PhaseFormat(phase + 1)))
                   /\ pcMain' = "do_test"
              ELSE /\ pcMain' = "done"
                   /\ UNCHANGED <<phase, inputs, luidRange, spawned, joined>>
    /\ threads' = Unjoined(threads, phase, joined)
    /\ mutex' = [mutex EXCEPT ![phase] =
                    IF \E t \in DOMAIN threads' : threads'[t].phase = phase
                    THEN @ ELSE FreeMutex]
    /\ UNCHANGED <<nvSupport, caps, outputs, outHolder,
                   encVars>>

(***************************************************************************)
(* One probe thread, the closure at encode.rs:202-240.                     *)
(***************************************************************************)
\* a guard that is not dropped when the closure unwinds
ReleasedOnReturnOnly(m, t, poison) ==
    IF m.holder = t /\ ~poison THEN [holder |-> 0, poisoned |-> m.poisoned] ELSE m

\* _lock goes out of scope when the closure ends or unwinds
Released(m, t, poison) ==
    IF m.holder = t THEN [holder |-> 0, poisoned |-> m.poisoned \/ poison] ELSE m

\* encode.rs:203-215: mutex.lock().unwrap() for NV and FFMPEG, which panics
\* when an earlier holder panicked; then the test call begins
ProbeBegin(t) ==
    LET th == threads[t]
        m == mutex[th.phase]
    IN  /\ th.pc = "start"
        /\ IF Serialized(th.input.driver)
           THEN /\ m.holder = 0
                /\ IF m.poisoned
                   THEN /\ threads' = [threads EXCEPT ![t].pc = "panicked"]
                        /\ UNCHANGED mutex
                   ELSE /\ threads' = [threads EXCEPT ![t].pc = "testing",
                                                      ![t].called = TRUE]
                        /\ mutex' = [mutex EXCEPT ![th.phase].holder = t]
           ELSE /\ threads' = [threads EXCEPT ![t].pc = "testing",
                                              ![t].called = TRUE]
                /\ UNCHANGED mutex
        /\ UNCHANGED <<pcMain, nvSupport, caps, phase, inputs, spawned, joined, outputs,
                       outHolder, luidRange, result,
                   encVars>>

\* encode.rs:216-239: the test call returns; with nothing to push the
\* closure ends here
TestReturn(t) ==
    LET th == threads[t]
    IN  /\ th.pc = "testing"
        /\ \E o \in TestOutcomes(th.input.driver, luidRange[th.phase]) :
              LET todo == Accepted(o)
              IN  /\ threads' = [threads EXCEPT
                                    ![t].rep = o,
                                    ![t].n = Len(todo),
                                    ![t].todo = todo,
                                    ![t].pc = IF todo = <<>> THEN "done" ELSE "push"]
                  /\ mutex' = IF todo = <<>>
                              THEN [mutex EXCEPT ![th.phase] = Released(@, t, FALSE)]
                              ELSE mutex
        /\ UNCHANGED <<pcMain, nvSupport, caps, phase, inputs, spawned, joined, outputs,
                       outHolder, luidRange, result,
                   encVars>>

\* the test call panics: the closure unwinds, _lock is dropped and the
\* mutex it guarded is poisoned
TestPanic(t) ==
    LET th == threads[t]
    IN  /\ th.pc = "testing"
        /\ threads' = [threads EXCEPT ![t].pc = "panicked"]
        /\ mutex' = [mutex EXCEPT ![th.phase] = Released(@, t, TRUE)]
        /\ UNCHANGED <<pcMain, nvSupport, caps, phase, inputs, spawned, joined, outputs,
                       outHolder, luidRange, result,
                   encVars>>

\* a push that overwrites the entry pushed last
CollectorPushOverLast(out, x) ==
    IF out = <<>> THEN <<x>> ELSE [out EXCEPT ![Len(out)] = x]

\* .push(input) on the locked outputs vector, encode.rs:236
CollectorPush(out, x) == Append(out, x)

\* outputs.lock().unwrap(), encode.rs:236
PushLock(t) ==
    LET th == threads[t]
    IN  /\ th.pc = "push"
        /\ outHolder[th.phase] = 0
        /\ outHolder' = [outHolder EXCEPT ![th.phase] = t]
        /\ threads' = [threads EXCEPT ![t].pc = "pushing"]
        /\ UNCHANGED <<pcMain, nvSupport, caps, phase, inputs, spawned, joined, mutex,
                       outputs, luidRange, result,
                   encVars>>

\* encode.rs:234-236: the clone of input with descs[i].luid is pushed and
\* the outputs guard dropped; after the last one the closure ends.  tid and
\* idx are ghost fields: the pushing thread (its position among the threads
\* of its do_test call) and the descriptor index
Push(t) ==
    LET th == threads[t]
        idx == th.n - Len(th.todo)
        rest == Tail(th.todo)
    IN  /\ th.pc = "pushing"
        /\ outputs' = [outputs EXCEPT ![th.phase] =
                          CollectorPush(@,
                              [f |-> [th.input EXCEPT !.luid = Head(th.todo)],
                               tid |-> t - PhaseBase(th.phase), idx |-> idx])]
        /\ outHolder' = [outHolder EXCEPT ![th.phase] = 0]
        /\ threads' = [threads EXCEPT
                          ![t].todo = rest,
                          ![t].pc = IF rest = <<>> THEN "done" ELSE "push"]
        /\ mutex' = IF rest = <<>>
                    THEN [mutex EXCEPT ![th.phase] = Released(@, t, FALSE)]
                    ELSE mutex
        /\ UNCHANGED <<pcMain, nvSupport, caps, phase, inputs, spawned, joined, luidRange,
                       result,
                   encVars>>

ProbeNext ==
    \/ StartAvailable
    \/ Spawn
    \/ Join
    \/ DoTestReturn
    \/ \E t \in DOMAIN threads : ProbeBegin(t)
    \/ \E t \in DOMAIN threads : TestReturn(t)
    \/ \E t \in DOMAIN threads : TestPanic(t)
    \/ \E t \in DOMAIN threads : PushLock(t)
    \/ \E t \in DOMAIN threads : Push(t)

FairNext ==
    \/ StartAvailableNoMfx
    \/ Spawn
    \/ Join
    \/ DoTestReturn
    \/ \E t \in DOMAIN threads : ProbeBegin(t)
    \/ \E t \in DOMAIN threads : TestReturn(t)
    \/ \E t \in DOMAIN threads : TestPanic(t)
    \/ \E t \in DOMAIN threads : PushLock(t)
    \/ \E t \in DOMAIN threads : Push(t)

(***************************************************************************)
(* The specifications: one Encoder driven by its caller, several Encoders  *)
(* driven at the same time, and one call of available().                   *)
(***************************************************************************)
Init == EncInit /\ ProbeInit

SpecEncoder == Init /\ [][EncNext]_vars

SpecEncoders == Init /\ [][ConcNext]_vars

SpecProbe == Init /\ [][ProbeNext]_vars

\* available() is called, every thread that can take a step is eventually
\* scheduled, and every test call that was made eventually returns or
\* panics: some enabled step of the prober is eventually taken
SpecProbeFair == Init /\ [][FairNext]_vars /\ WF_vars(FairNext)

(***************************************************************************)
(* Properties of the Encoder (checked under SpecEncoder).                  *)
(***************************************************************************)
\* C1: Encoder::new with an odd width or an odd height (negative values
\* included) fails without any call of the backend's construct function,
\* and every Encoder that exists has even width and even height.
C1_OddDimensionNeverReachesBackend ==
    \A e \in Encoders :
        /\ (est[e] # "none" /\ (IsOdd(ectx[e].width) \/ IsOdd(ectx[e].height)))
              => (est[e] = "failed" /\ newCalls[e] = 0)
        /\ est[e] \in {"live", "dropped"}
              => (~IsOdd(ectx[e].width) /\ ~IsOdd(ectx[e].height))

\* C5: the buffer a successful encode returns holds only frames delivered
\* by callbacks of that same encode call, never a frame of an earlier call.
C5_NoStaleFrames ==
    \A e \in Encoders :
        (est[e] = "live" /\ epc[e] = "idle" /\ encRet[e].tag = "Ok")
            => \A i \in DOMAIN frames[e] : frames[e][i].call = callNo[e]

\* a later encode call succeeded with frames of its own although frames of
\* an earlier call were still in the buffer when it was entered
C5_Witness ==
    \E e \in Encoders :
        /\ est[e] = "live" /\ epc[e] = "idle" /\ encRet[e].tag = "Ok"
        /\ callNo[e] >= 2
        /\ prevLeft[e]
        /\ frames[e] # <<>>

\* C6: a successful encode returns exactly one frame per callback
\* invocation of that call, in invocation order, each with the payload
\* (the first size bytes at data), timestamp and keyframe flag given to
\* that invocation; zero invocations yield an empty buffer.
C6_OneFramePerCallbackInOrder ==
    \A e \in Encoders :
        (est[e] = "live" /\ epc[e] = "idle" /\ encRet[e].tag = "Ok")
            => /\ Len(frames[e]) = Len(cbLog[e])
               /\ \A i \in DOMAIN cbLog[e] :
                     /\ i \in DOMAIN frames[e]
                     /\ Len(frames[e][i].data) = cbLog[e][i].size
                     /\ \A j \in 1..cbLog[e][i].size :
                           frames[e][i].data[j] = cbLog[e][i].mem[j]
                     /\ frames[e][i].pts = cbLog[e][i].pts
                     /\ frames[e][i].key = cbLog[e][i].key

\* a successful encode whose two callbacks delivered different frames
C6_Witness ==
    \E e \in Encoders :
        /\ est[e] = "live" /\ epc[e] = "idle" /\ encRet[e].tag = "Ok"
        /\ Len(cbLog[e]) = 2
        /\ Len(frames[e]) = 2
        /\ frames[e][1] # frames[e][2]

\* C10: for an Encoder that was constructed, the backend's destroy is
\* called exactly once over its lifetime, with the handle construct
\* returned and while the accumulation buffer is still allocated, which is
\* released afterwards; for a failed construction and before the drop,
\* destroy is never called.
C10_DestroyOnceBeforeRelease ==
    \A e \in Encoders :
        /\ est[e] = "dropped"
              => /\ Len(destroyLog[e]) = 1
                 /\ destroyLog[e][1].handle \in Handles
                 /\ destroyLog[e][1].bufAlloc
                 /\ ~framesAlloc[e]
                 /\ newCalls[e] = 1
        /\ est[e] \in {"none", "failed", "live"} => destroyLog[e] = <<>>
        /\ est[e] = "live" => framesAlloc[e]

\* an Encoder dropped after it encoded, with frames in its buffer
C10_Witness ==
    \E e \in Encoders :
        /\ est[e] = "dropped"
        /\ callNo[e] >= 1
        /\ cbLog[e] # <<>>
        /\ Len(destroyLog[e]) = 1

\* an encode call of e has returned and no later backend call was made
EncodeReturned(e) ==
    est[e] = "live" /\ epc[e] = "idle" /\ lastCall[e].op = "encode"

\* C11: encode returns Ok exactly when the backend's encode status is 0;
\* for a non-zero status s it returns Err(s) with s unchanged, and the
\* value returned then holds no reference to the accumulation buffer.
C11_EncodeStatusVerbatim ==
    \A e \in Encoders :
        EncodeReturned(e)
            => /\ encRet[e].tag = "Ok" <=> lastCall[e].status = 0
               /\ lastCall[e].status = 0 => encRet[e].ref = e
               /\ lastCall[e].status # 0
                     => /\ encRet[e].tag = "Err"
                        /\ encRet[e].code = lastCall[e].status
                        /\ encRet[e].ref = "none"

\* the backend's encode returned the positive status 3 after a callback
\* had put a frame into the buffer
C11_Witness ==
    \E e \in Encoders :
        /\ EncodeReturned(e)
        /\ lastCall[e].status = 3
        /\ frames[e] # <<>>
        /\ encRet[e].tag = "Err"

Setters == {"set_bitrate", "set_framerate"}

\* a step in which a setter of e made its backend call
SetterStep(e) == lastCall'[e] # lastCall[e] /\ lastCall'[e].op \in Setters

\* C12: a set_bitrate or set_framerate call, made with any value while no
\* encode call is running, makes one backend call with the Encoder's handle
\* and the value given, returns Ok exactly when the backend's status is 0
\* and otherwise Err with that status, and changes neither the accumulation
\* buffer, nor the handle, nor the stored context; no other backend call
\* (new, encode, destroy) is made.
C12_SettersForwardAndKeepState ==
    [][\A e \in Encoders :
          SetterStep(e)
              => /\ lastCall'[e].handle = codec[e]
                 /\ lastCall'[e].arg = lastCall'[e].given
                 /\ lastCall'[e].ret.tag = "Ok" <=> lastCall'[e].status = 0
                 /\ lastCall'[e].status # 0
                       => lastCall'[e].ret = [tag |-> "Err",
                                              code |-> lastCall'[e].status]
                 /\ frames' = frames /\ framesAlloc' = framesAlloc
                 /\ codec' = codec /\ ectx' = ectx
                 /\ est' = est /\ epc[e] = "idle" /\ epc' = epc
                 /\ newCalls' = newCalls /\ destroyLog' = destroyLog
                 /\ callNo' = callNo /\ cbLog' = cbLog /\ encRet' = encRet]_vars

\* set_bitrate was called with a negative value between encode calls, with
\* frames in the buffer, and the backend answered with the status 3
C12_Witness ==
    \E e \in Encoders :
        /\ est[e] = "live"
        /\ lastCall[e].op = "set_bitrate"
        /\ lastCall[e].given < 0
        /\ lastCall[e].status = 3
        /\ lastCall[e].ret.tag = "Err"
        /\ callNo[e] >= 1
        /\ frames[e] # <<>>

\* C13: a failed construction tells its cause: the error is the
\* invalid-geometry value exactly when a dimension is odd, and the
\* backend-rejected value exactly when both dimensions are even and the
\* backend's construct returned null.
C13_ConstructionErrorTellsCause ==
    \A e \in Encoders :
        est[e] = "failed"
            => /\ newRet[e] = NewErrOdd
                     <=> (IsOdd(ectx[e].width) \/ IsOdd(ectx[e].height))
               /\ newRet[e] = NewErrNull
                     <=> /\ ~IsOdd(ectx[e].width) /\ ~IsOdd(ectx[e].height)
                         /\ newCalls[e] = 1
                         /\ lastCall[e].handle = NullPtr

\* C18: every backend encode, set_bitrate and set_framerate call is made
\* on a constructed Encoder with the non-null handle construct returned;
\* nothing is called before construction succeeded, and once destroy has
\* been called no further backend call is made for that Encoder.
C18_CallsOnlyBetweenConstructAndDestroy ==
    \A e \in Encoders :
        /\ lastCall[e].op \in {"encode"} \cup Setters
              => /\ est[e] = "live" /\ newRet[e] = "Ok" /\ newCalls[e] = 1
                 /\ lastCall[e].handle \in Handles
                 /\ lastCall[e].handle = codec[e]
                 /\ destroyLog[e] = <<>>
        /\ est[e] \in {"none", "failed"}
              => /\ lastCall[e].op \in {"none", "new"}
                 /\ callNo[e] = 0 /\ epc[e] = "idle"
        /\ (est[e] = "dropped" \/ destroyLog[e] # <<>>)
              => /\ lastCall[e].op = "destroy"
                 /\ epc[e] = "idle"
                 /\ codec[e] = NullPtr

\* an Encoder was dropped after its encode calls, the last of which failed
C18_Witness ==
    \E e \in Encoders :
        /\ est[e] = "dropped"
        /\ lastCall[e].op = "destroy"
        /\ lastCall[e].handle \in Handles
        /\ callNo[e] = MaxEncodeCalls
        /\ encRet[e].tag = "Err"

(***************************************************************************)
(* Properties of several Encoders (checked under SpecEncoders).            *)
(***************************************************************************)
\* C19: each Encoder has its own accumulation buffer, empty after
\* construction, and the callback context of its encode call is that
\* buffer: with several instances encoding at the same time, every frame
\* delivered during an instance's encode call is in that instance's buffer
\* and in no other, and a successful encode returns the instance's own
\* buffer.
C19_FramesStayInOwnBuffer ==
    \A e \in Encoders :
        /\ (est[e] = "live" /\ callNo[e] = 0) => frames[e] = <<>>
        /\ \A i \in DOMAIN frames[e] : frames[e][i].key = EncoderKey(e)
        /\ (est[e] = "live" /\ callNo[e] >= 1)
              => /\ Len(frames[e]) = Len(cbLog[e])
                 /\ \A i \in DOMAIN frames[e] : frames[e][i].call = callNo[e]
        /\ encRet[e].tag = "Ok" => encRet[e].ref = e

\* two instances are inside their encode calls at the same time and each
\* has been delivered MaxCallbacks frames
C19_Witness ==
    /\ \A e \in Encoders :
          /\ epc[e] = "in_encode"
          /\ Len(cbLog[e]) = MaxCallbacks
          /\ Len(frames[e]) = MaxCallbacks
    /\ frames["e1"] # frames["e2"]

(***************************************************************************)
(* Properties of the prober (checked under SpecProbe).                     *)
(***************************************************************************)
Testing(t) == threads[t].pc = "testing"

\* the entries thread t pushed into the outputs of its do_test call
PushedBy(t) ==
    LET out == outputs[threads[t].phase]
    IN  {i \in DOMAIN out : out[i].tid = t - PhaseBase(threads[t].phase)}

\* C2: two probes of the serialization-required backends (NV, FFMPEG)
\* never run their native test call at the same time.
C2_SerializedTestsNeverOverlap ==
    \A t1 \in DOMAIN threads, t2 \in DOMAIN threads :
        (t1 # t2 /\ threads[t1].input.driver \in {"NV", "FFMPEG"} /\ threads[t2].input.driver \in {"NV", "FFMPEG"})
            => ~(Testing(t1) /\ Testing(t2))

\* an FFMPEG probe is inside its test call while the other FFMPEG probe of
\* the same do_test call has been spawned and has not got the mutex
C2_Witness ==
    \E t1 \in DOMAIN threads, t2 \in DOMAIN threads :
        /\ t1 # t2
        /\ threads[t1].input.driver = "FFMPEG"
        /\ threads[t2].input.driver = "FFMPEG"
        /\ threads[t1].phase = threads[t2].phase
        /\ Testing(t1)
        /\ threads[t2].pc = "start"

\* C3: no FeatureContext in the list available() returns has luid 0,
\* whatever the backends' test functions do.
C3_NoZeroLuidReturned ==
    pcMain = "done" => \A i \in DOMAIN result : result[i].luid # ZeroLuid

\* C4: a probe that fails or panics contributes nothing and does not stop
\* a sibling probe from running its test call: every probe that has ended
\* made its test call, and a probe that panicked pushed nothing.
C4_FailedProbeDoesNotStopSiblings ==
    \A t \in DOMAIN threads :
        /\ Finished(t) => threads[t].called
        /\ threads[t].pc = "panicked" => PushedBy(t) = {}

\* C7: a probe whose test call reported a non-zero status or an adapter
\* count above MAX_ADATERS contributes no FeatureContext: it pushes nothing
\* to the outputs of its do_test, and the result of available() holds
\* exactly the outputs of the do_test calls that have returned.
C7_BadReportContributesNothing ==
    /\ \A t \in DOMAIN threads :
          (threads[t].pc \notin {"start", "testing"}
             /\ (threads[t].rep.status # 0 \/ threads[t].rep.count > MAX_ADATERS))
              => PushedBy(t) = {}
    /\ \A p \in Phases :
          (\E t \in DOMAIN threads : threads[t].phase = p)
              => \A i \in DOMAIN outputs[p] :
                     \E t \in DOMAIN threads :
                         /\ threads[t].phase = p
                         /\ i \in PushedBy(t)
                         /\ threads[t].rep.status = 0
                         /\ threads[t].rep.count <= MAX_ADATERS
    /\ pcMain = "done"
          => result = FeaturesOf(outputs[0]) \o FeaturesOf(outputs[1])
                        \o FeaturesOf(outputs[2])

\* a probe ended after reporting status 0 with a count above MAX_ADATERS
\* while a sibling probe of the same do_test contributed an entry
C7_Witness ==
    \E t \in DOMAIN threads, u \in DOMAIN threads :
        /\ t # u
        /\ threads[t].phase = threads[u].phase
        /\ threads[t].pc = "done"
        /\ threads[t].rep.status = 0
        /\ threads[t].rep.count > MAX_ADATERS
        /\ PushedBy(u) # {}

Hardware == {"NV", "AMF", "MFX"}

\* C8: every FFMPEG FeatureContext of the result has a (format, luid) pair
\* that a hardware backend's probe contributed for the same format.
C8_FallbackWithinHardwareLuids ==
    \A i \in DOMAIN result :
        result[i].driver = "FFMPEG"
            => \E j \in DOMAIN result :
                  /\ result[j].driver \in Hardware
                  /\ result[j].data_format = result[i].data_format
                  /\ result[j].luid = result[i].luid

\* available() returned an FFMPEG entry for H264 and none for H265, where
\* the FFMPEG H265 probe ran and the hardware had found a luid for H264 only
C8_Witness ==
    /\ pcMain = "done"
    /\ Len(caps["FFMPEG"]) = 2
    /\ \E i \in DOMAIN result :
          result[i].driver = "FFMPEG" /\ result[i].data_format = "H264"
    /\ \A i \in DOMAIN result : result[i].data_format = "H264"
    /\ Len(outputs[2]) = 0

\* C9: a backend whose capability list is empty contributes no probe task
\* (NV's list is empty when its driver-support query fails); when every
\* list is empty no probe thread is spawned, no test call is made and the
\* list available() returns is empty.
C9_EmptyCapabilitiesNoProbes ==
    /\ \A t \in DOMAIN threads :
          /\ caps[threads[t].input.driver] # <<>>
          /\ threads[t].input.driver = "NV" => nvSupport = 0
    /\ \A i \in DOMAIN inputs :
          /\ caps[inputs[i].driver] # <<>>
          /\ inputs[i].driver = "NV" => nvSupport = 0
    /\ (pcMain # "idle" /\ nvSupport # 0
          /\ \A drv \in Drivers \ {"NV"} : caps[drv] = <<>>)
          => /\ threads = <<>>
             /\ inputs = <<>>
             /\ \A p \in Phases : outputs[p] = <<>>
             /\ result = <<>>

\* available() returned with every capability list empty
C9_Witness ==
    /\ pcMain = "done"
    /\ nvSupport # 0
    /\ \A drv \in Drivers \ {"NV"} : caps[drv] = <<>>
    /\ result = <<>>

\* the number of entries a probe is to contribute: its reported count when
\* it reported status 0 and a count within 0..MAX_ADATERS, none otherwise
Expected(t) ==
    IF threads[t].rep.status = 0 /\ threads[t].rep.count >= 0
          /\ threads[t].rep.count <= MAX_ADATERS
    THEN threads[t].rep.count ELSE 0

\* C14: when a probe has ended, the outputs of its do_test hold exactly one
\* entry for each descriptor index below its reported count if it reported
\* status 0 with a count within the bound, with the probe's driver, api and
\* format and that descriptor's luid, and no entry of it otherwise; under
\* every interleaving of the probes no entry is lost or duplicated, every
\* entry of the outputs is such an entry, and the list available() returns
\* is the outputs of its three do_test calls.
C14_ResultIsExactlyTheAcceptedDescriptors ==
    /\ \A t \in DOMAIN threads :
          threads[t].pc = "done"
              => /\ Cardinality(PushedBy(t)) = Expected(t)
                 /\ \A i \in 1..Expected(t) :
                       \E k \in PushedBy(t) :
                           LET x == outputs[threads[t].phase][k]
                           IN  /\ x.idx = i - 1
                               /\ x.f.driver = threads[t].input.driver
                               /\ x.f.api = threads[t].input.api
                               /\ x.f.data_format = threads[t].input.data_format
                               /\ x.f.luid = threads[t].rep.descs[i]
    /\ \A p \in Phases :
          (\E t \in DOMAIN threads : threads[t].phase = p)
              => \A k \in DOMAIN outputs[p] :
                     \E t \in DOMAIN threads :
                         /\ threads[t].phase = p
                         /\ k \in PushedBy(t)
                         /\ outputs[p][k].idx < Expected(t)
    /\ pcMain = "done"
          => /\ Len(result) = Len(outputs[0]) + Len(outputs[1]) + Len(outputs[2])
             /\ \A k \in DOMAIN result :
                   result[k] = (FeaturesOf(outputs[0]) \o FeaturesOf(outputs[1])
                                   \o FeaturesOf(outputs[2]))[k]

\* two probes of one do_test have both ended with an accepted descriptor,
\* and the one spawned later pushed its entry first
C14_Witness ==
    \E t \in DOMAIN threads, u \in DOMAIN threads :
        /\ t < u
        /\ threads[t].phase = threads[u].phase
        /\ threads[t].pc = "done" /\ threads[u].pc = "done"
        /\ Expected(t) = 1 /\ Expected(u) = 1
        /\ \E k \in PushedBy(u), l \in PushedBy(t) : k < l

\* C15: no FFMPEG test call is made while a hardware probe has not ended,
\* no H265 FFMPEG test call is made while an H264 FFMPEG probe has not
\* ended, no probe of an earlier do_test call is left running, and no probe
\* is running when available() has returned.
C15_DoTestCallsInSequence ==
    /\ \A t \in DOMAIN threads, u \in DOMAIN threads :
          /\ (threads[t].called /\ threads[t].input.driver = "FFMPEG"
                 /\ threads[u].input.driver \in Hardware) => Finished(u)
          /\ (threads[t].called /\ threads[t].phase = 2 /\ threads[u].phase = 1)
                => Finished(u)
    /\ \A t \in DOMAIN threads :
          /\ threads[t].phase <= phase
          /\ threads[t].phase < phase => Finished(t)
    /\ pcMain = "done" => \A t \in DOMAIN threads : Finished(t)

\* an H265 FFMPEG probe is inside its test call after the hardware probes
\* and the H264 FFMPEG probes contributed entries
C15_Witness ==
    /\ outputs[0] # <<>>
    /\ outputs[1] # <<>>
    /\ \E t \in DOMAIN threads :
          /\ threads[t].phase = 2
          /\ threads[t].input.driver = "FFMPEG"
          /\ threads[t].input.data_format = "H265"
          /\ Testing(t)

\* C16: AMF and MFX probes never hold the serialization mutex and never
\* wait for it: the holder of the mutex is always an NV or FFMPEG probe, and
\* an AMF or MFX probe can begin its test call, return from it and push
\* under the outputs lock it holds, whoever holds the serialization mutex.
C16_UnserializedProbesIgnoreTheLock ==
    /\ \A p \in Phases :
          mutex[p].holder # 0
              => /\ mutex[p].holder \in DOMAIN threads
                 /\ threads[mutex[p].holder].input.driver \in {"NV", "FFMPEG"}
    /\ \A t \in DOMAIN threads :
          threads[t].input.driver \in {"AMF", "MFX"}
              => /\ threads[t].pc = "start" => ENABLED ProbeBegin(t)
                 /\ threads[t].pc = "testing" => ENABLED TestReturn(t)
                 /\ threads[t].pc = "pushing" => ENABLED Push(t)

\* an AMF or MFX probe is inside its test call while an NV probe of the
\* same do_test holds the mutex and is inside its own test call, the other
\* NV probe waiting for the mutex
C16_Witness ==
    \E t \in DOMAIN threads, u \in DOMAIN threads, w \in DOMAIN threads :
        /\ threads[t].input.driver = "NV"
        /\ Testing(t)
        /\ mutex[threads[t].phase].holder = t
        /\ threads[u].input.driver \in {"AMF", "MFX"}
        /\ threads[u].phase = threads[t].phase
        /\ Testing(u)
        /\ w # t /\ threads[w].input.driver = "NV" /\ threads[w].pc = "start"

\* C17: when every test call returns and the threads are scheduled fairly,
\* available() returns: until it has returned some thread can always take
\* a step (no probe waits for a lock that is never released, whether its
\* holder ended by return or by panic), and it does return.
C17_AvailableReturns ==
    /\ [](pcMain # "done" => ENABLED FairNext)
    /\ <>(pcMain = "done")

\* every probe of a do_test call has ended and was joined, one of them by a
\* panic inside its test call while it held the serialization mutex and a
\* later one by the panic of lock().unwrap() on the poisoned mutex; both
\* locks are free
C17_Witness ==
    /\ pcMain = "do_test"
    /\ spawned = Len(inputs) /\ joined = spawned
    /\ mutex[phase] = [holder |-> 0, poisoned |-> TRUE]
    /\ outHolder[phase] = 0
    /\ \E t \in DOMAIN threads, u \in DOMAIN threads :
          /\ threads[t].phase = phase /\ threads[u].phase = phase
          /\ threads[t].pc = "panicked" /\ threads[t].called
          /\ threads[u].pc = "panicked" /\ ~threads[u].called

====
